---- MODULE Spec2Model ----
(***************************************************************************)
(* Model of the RINEX header repair and header edit code of               *)
(* gnss_ftp_tools: conversion_funcs.py (fix_netr8_rec_line,               *)
(* fix_netr9_pgm_line, validate_and_fix_rinex_header_line,                *)
(* edit_rinex_header) and its caller ftp_funcs.process_downloaded_file.   *)
(*                                                                         *)
(* A Python str is a sequence of one-character strings; a file is a       *)
(* sequence of lines, each line keeping its trailing "\n" as readlines()  *)
(* returns it.                                                            *)
(***************************************************************************)
EXTENDS Integers, Sequences, FiniteSets, TLC

VARIABLES
    \* ---- one call of validate_and_fix_rinex_header_line ----
    lpc,            \* "input" before the call, "returned" after it
    line_content,   \* the argument of the call
    returned_line,  \* the value the call returned
    rule,           \* which return statement produced it
    \* ---- one call of edit_rinex_header, directly or from
    \*      process_downloaded_file ----
    pc,             \* position in the caller and in edit_rinex_header
    caller,         \* "direct" or "process_downloaded_file"
    receiver_type,  \* the ReceiverType handed to process_downloaded_file
    prepared,       \* outcome of the per-receiver preparation
    teqc_env,       \* what the converter does on this host when it is run
    infile,         \* content of the input file (sequence of lines)
    lines,          \* the local list `lines` of edit_rinex_header
    pgm_index,      \* index of the line the PGM repair rewrote, 0 if none
    infile_arg,     \* what the local name `infile` refers to: "input" or "temp"
    temp_file,      \* the '.fixed' file: "none", "exists" or "removed"
    written,        \* content written to the '.fixed' file
    teqc_runs,      \* number of converter invocations
    out_file,       \* m.daily_dnld_path: "untouched", "nonempty" or "empty"
    edit_result,    \* what edit_rinex_header returned: "none", "True", "False"
    result,         \* what process_downloaded_file returned
    runpkr00_exit,  \* how the decoder run by convert_netrs ended
    netrs_teqc_exit,\* how the converter run by convert_netrs ended
    netrs_result,   \* what convert_netrs returned: "True", "None", "raised"
    \* ---- the converter argument list built by edit_rinex_header ----
    apc,               \* "call" before lines 197-253 ran, "built" after
    station,           \* the arguments of edit_rinex_header (None when
    organization,      \* an optional one is not given)
    user,
    antenna_type,
    marker_num,
    antenna_number,
    station_cartesian,
    station_llh,
    args,              \* the options of `args`, in the order they are added
    warnings,          \* number of logger.warning calls of lines 230-250
    \* ---- lines 253-309 of the same call, normalization having succeeded ----
    call_teqc_env,     \* what the converter did when it was run
    invoked_with,      \* the options subprocess.run was called with
    call_result,       \* what the call returned: "none", "True", "False"
    \* ---- one call of move_file_safely (sweep_rinex.py) ----
    mv_pc,             \* the statement move_file_safely is about to run
    src_size,          \* size of the uploaded file when the call starts
    src_path,          \* the file at src_path, Absent when there is none
    temp_path,         \* the file at temp_path
    final_path,        \* the file at final_path
    move_result,       \* what the call returned: "none", "True", "False"
    \* ---- calls of upload_to_sftp (sftp_funcs.py) ----
    up_pc,             \* "idle", "start" before a call, "loop" inside its loop
    up_calls,          \* number of calls started
    download_dir,      \* names of the files of the download directory
    processed_dir,     \* local files whose zip copy is in the processed dir
    files,             \* what is left of the listing `files` of this call
    listed,            \* the names the listing of this call held
    put_done,          \* local files whose gzip sftp.put returned for
    step_failed,       \* local files whose gzip, upload or zip step failed
    \* ---- one run of download_operation of download_all_new_files ----
    dl_pc,             \* position in the two nested loops
    dl_receiver_type,  \* what identify_receiver_type returned
    data_dirs,         \* the directories found, with what the server holds
    dir_index,         \* position of the loop over data_dirs
    file_index,        \* position of the loop over target_files
    ftp_cwd,           \* working directory of the session: "root" or "dir"
    listed_dirs,       \* directories entered and listed
    attempts,          \* number of iterations started for each remote file
    failed_files,      \* remote files whose iteration ended in a failure
    last_outcome,      \* how the latest iteration went
    dnld_file,         \* the temporary file of the latest iteration
    batch_result       \* what download_operation returned

lineVars == <<lpc, line_content, returned_line, rule>>
fileVars == <<pc, caller, receiver_type, prepared, teqc_env, infile, lines,
              pgm_index, infile_arg, temp_file, written, teqc_runs, out_file,
              edit_result, result, runpkr00_exit, netrs_teqc_exit,
              netrs_result>>
netrsVars == <<runpkr00_exit, netrs_teqc_exit, netrs_result>>
argVars == <<apc, station, organization, user, antenna_type, marker_num,
             antenna_number, station_cartesian, station_llh, args, warnings>>
posVars == <<call_teqc_env, invoked_with, call_result>>
moveVars == <<mv_pc, src_size, src_path, temp_path, final_path, move_result>>
uploadVars == <<up_pc, up_calls, download_dir, processed_dir, files, listed,
                put_done, step_failed>>
batchVars == <<dl_pc, dl_receiver_type, data_dirs, dir_index, file_index,
               ftp_cwd, listed_dirs, attempts, failed_files, last_outcome,
               dnld_file, batch_result>>
ioVars == <<moveVars, uploadVars, batchVars>>
vars == <<lineVars, fileVars, argVars, posVars, ioVars>>

\* a path no file is at
Absent == <<>>

MoveIdle ==
    /\ mv_pc = "idle" /\ src_size = 0
    /\ src_path = Absent /\ temp_path = Absent /\ final_path = Absent
    /\ move_result = "none"

UploadIdle ==
    /\ up_pc = "idle" /\ up_calls = 0
    /\ download_dir = {} /\ processed_dir = {}
    /\ files = <<>> /\ listed = {} /\ put_done = {} /\ step_failed = {}

BatchIdle ==
    /\ dl_pc = "idle" /\ dl_receiver_type = "none" /\ data_dirs = <<>>
    /\ dir_index = 0 /\ file_index = 0 /\ ftp_cwd = "root"
    /\ listed_dirs = {} /\ attempts = <<>> /\ failed_files = {}
    /\ last_outcome = "none" /\ dnld_file = "none" /\ batch_result = "none"

IoIdle == MoveIdle /\ UploadIdle /\ BatchIdle

-----------------------------------------------------------------------------
(* Python str primitives                                                   *)

SP == " "
NL == "\n"
Whitespace == {" ", "\n", "\t", "\r"}
Digits == {"0", "1", "2", "3", "4", "5", "6", "7", "8", "9"}

Min(a, b) == IF a < b THEN a ELSE b
Max(a, b) == IF a > b THEN a ELSE b

\* s[a:b] for 0 <= a, 0 <= b
Slice(s, a, b) == SubSeq(s, a + 1, Min(b, Len(s)))

\* s[:n]
Prefix(s, n) == Slice(s, 0, n)

\* n spaces
Spaces(n) == [i \in 1..n |-> SP]

\* s.ljust(n): pads on the right, never shortens
Ljust(s, n) == s \o Spaces(Max(n - Len(s), 0))

\* sub in s
Contains(s, sub) ==
    \E i \in 0..(Len(s) - Len(sub)) : SubSeq(s, i + 1, i + Len(sub)) = sub

\* s.find(sub): lowest index, -1 if absent
Find(s, sub) ==
    IF Contains(s, sub)
    THEN CHOOSE i \in 0..(Len(s) - Len(sub)) :
            /\ SubSeq(s, i + 1, i + Len(sub)) = sub
            /\ \A j \in 0..(i - 1) : SubSeq(s, j + 1, j + Len(sub)) # sub
    ELSE -1

\* s.startswith(p)
StartsWith(s, p) == Len(s) >= Len(p) /\ SubSeq(s, 1, Len(p)) = p

\* number of trailing characters of s that belong to cs
TrailingIn(s, cs) ==
    IF \E k \in 1..Len(s) : s[k] \notin cs
    THEN Len(s) - (CHOOSE k \in 1..Len(s) :
                      /\ s[k] \notin cs
                      /\ \A m \in (k + 1)..Len(s) : s[m] \in cs)
    ELSE Len(s)

\* number of leading characters of s that belong to cs
LeadingIn(s, cs) ==
    IF \E k \in 1..Len(s) : s[k] \notin cs
    THEN (CHOOSE k \in 1..Len(s) :
             /\ s[k] \notin cs
             /\ \A m \in 1..(k - 1) : s[m] \in cs) - 1
    ELSE Len(s)

\* s.rstrip()
Rstrip(s) == SubSeq(s, 1, Len(s) - TrailingIn(s, Whitespace))

\* s.rstrip('\r\n')
RstripNewline(s) == SubSeq(s, 1, Len(s) - TrailingIn(s, {"\r", "\n"}))

\* s.strip()
Strip(s) ==
    LET r == Rstrip(s) IN SubSeq(r, LeadingIn(r, Whitespace) + 1, Len(r))

\* index of the first whitespace of s at or after i, Len(s)+1 if none
NextWhitespace(s, i) ==
    IF \E k \in i..Len(s) : s[k] \in Whitespace
    THEN CHOOSE k \in i..Len(s) :
            /\ s[k] \in Whitespace
            /\ \A m \in i..(k - 1) : s[m] \notin Whitespace
    ELSE Len(s) + 1

\* s.split(): the whitespace-separated tokens of s
RECURSIVE Split(_)
Split(s) ==
    LET t == SubSeq(s, LeadingIn(s, Whitespace) + 1, Len(s))
        e == NextWhitespace(t, 1)
    IN  IF t = <<>> THEN <<>>
        ELSE <<SubSeq(t, 1, e - 1)>> \o Split(SubSeq(t, e, Len(t)))

\* ' '.join(parts)
RECURSIVE Join(_)
Join(parts) ==
    IF parts = <<>> THEN <<>>
    ELSE IF Len(parts) = 1 THEN parts[1]
    ELSE parts[1] \o <<SP>> \o Join(Tail(parts))

\* line[0].isdigit() for a non-empty line
FirstIsDigit(s) == Len(s) > 0 /\ s[1] \in Digits

-----------------------------------------------------------------------------
(* Labels and column widths                                                *)

REC_LABEL == <<"R","E","C"," ","#"," ","/"," ","T","Y","P","E"," ","/"," ",
               "V","E","R","S">>
PGM_LABEL == <<"P","G","M"," ","/"," ","R","U","N"," ","B","Y"," ","/"," ",
               "D","A","T","E">>
EOH_LABEL == <<"E","N","D"," ","O","F"," ","H","E","A","D","E","R">>

DataWidth == 60
LineWidth == 80
FieldWidth == 20

-----------------------------------------------------------------------------
(* conversion_funcs.py: the per-line repair rules                          *)

\* variant of the NetR8 repair that leaves the line at its natural length
fix_netr8_rec_line_nopad(s) ==
    IF Contains(s, REC_LABEL)
    THEN LET label_field == Slice(s, DataWidth, LineWidth)
         IN  IF StartsWith(label_field, <<SP>>) /\ Contains(label_field, REC_LABEL)
             THEN Prefix(s, DataWidth) \o REC_LABEL
             ELSE s
    ELSE s

fix_netr8_rec_line(s) ==
    IF Contains(s, REC_LABEL)
    THEN LET label_field == Slice(s, DataWidth, LineWidth)
         IN  IF StartsWith(label_field, <<SP>>) /\ Contains(label_field, REC_LABEL)
             THEN Ljust(Prefix(s, DataWidth) \o REC_LABEL, LineWidth)
             ELSE s
    ELSE s

\* variant that keeps the text that follows the label
fix_netr9_pgm_line_keep_tail(s) ==
    IF Contains(s, PGM_LABEL)
    THEN LET label_pos == Find(s, PGM_LABEL)
         IN  Ljust(Rstrip(Prefix(s, label_pos)), DataWidth)
                \o SubSeq(s, label_pos + 1, Len(s))
    ELSE s

fix_netr9_pgm_line(s) ==
    IF Contains(s, PGM_LABEL)
    THEN LET label_pos    == Find(s, PGM_LABEL)
             data_portion == Ljust(Rstrip(Prefix(s, label_pos)), DataWidth)
             fixed_line   == data_portion \o PGM_LABEL
         IN  IF Len(fixed_line) > LineWidth
             THEN Prefix(fixed_line, LineWidth)
             ELSE fixed_line
    ELSE s

\* the return statement validate_and_fix_rinex_header_line leaves through
validate_branch(s) ==
    IF fix_netr8_rec_line(s) # s THEN "netr8"
    ELSE IF fix_netr9_pgm_line(s) # s THEN "netr9"
    ELSE IF Len(s) > LineWidth THEN "truncate"
    ELSE "none"

\* variant without the fallback truncation of over-long lines
validate_and_fix_no_truncate(s) ==
    IF fix_netr8_rec_line(s) # s THEN fix_netr8_rec_line(s)
    ELSE IF fix_netr9_pgm_line(s) # s THEN fix_netr9_pgm_line(s)
    ELSE s

validate_and_fix_rinex_header_line(s) ==
    IF fix_netr8_rec_line(s) # s THEN fix_netr8_rec_line(s)
    ELSE IF fix_netr9_pgm_line(s) # s THEN fix_netr9_pgm_line(s)
    ELSE IF Len(s) > LineWidth THEN Prefix(s, LineWidth)
    ELSE s

-----------------------------------------------------------------------------
(* conversion_funcs.py: the normalization blocks of edit_rinex_header      *)

RECURSIVE Cat(_)
Cat(ps) == IF ps = <<>> THEN <<>> ELSE Head(ps) \o Cat(Tail(ps))

\* the record inserted when the file has no END OF HEADER
EOH_LINE == Spaces(DataWidth) \o EOH_LABEL \o <<NL>>

\* `line.strip() and line[0].isdigit()`
IsDataLine(l) == Strip(l) # <<>> /\ FirstIsDigit(l)

\* `not line.strip()`
IsBlankLine(l) == Strip(l) = <<>>

HasPgmLabel(l) == Contains(l, PGM_LABEL)

\* a line at which the per-line loop reaches its `break`
IsLoopStop(l) == ~IsDataLine(l) /\ ~IsBlankLine(l) /\ Contains(l, EOH_LABEL)

\* smallest member of a set of 1-based line indices, 0 if the set is empty
FirstIndex(S) ==
    IF S = {} THEN 0 ELSE CHOOSE i \in S : \A j \in S : i <= j

\* indices of the data lines of ls
DataLineIndices(ls) == { i \in 1..Len(ls) : IsDataLine(ls[i]) }

\* variant that takes the index just past the first data line
data_start_past_first(ls) ==
    IF DataLineIndices(ls) = {} THEN 0 ELSE FirstIndex(DataLineIndices(ls))

\* `data_start`: Python index of the first data line, 0 when there is none
data_start(ls) ==
    IF DataLineIndices(ls) = {} THEN 0 ELSE FirstIndex(DataLineIndices(ls)) - 1

\* lines 124-135: add END OF HEADER when ''.join(lines) does not hold it
insert_end_of_header(ls) ==
    IF Contains(Cat(ls), EOH_LABEL)
    THEN ls
    ELSE SubSeq(ls, 1, data_start(ls)) \o <<EOH_LINE>>
            \o SubSeq(ls, data_start(ls) + 1, Len(ls))

\* variant of the replacement that does not cut the date to 20 characters
pgm_repaired_line_long_date(l) ==
    LET parts    == Split(l)
        pgm      == Ljust(Prefix(parts[1], FieldWidth), FieldWidth)
        run_by   == Ljust(Prefix(parts[2], FieldWidth), FieldWidth)
        date_str == Ljust(Join(SubSeq(parts, 3, Len(parts))), FieldWidth)
    IN  pgm \o run_by \o date_str \o PGM_LABEL \o <<NL>>

\* lines 143-154: the replacement of a PGM / RUN BY / DATE line
pgm_repaired_line(l) ==
    LET parts    == Split(l)
        pgm      == Ljust(Prefix(parts[1], FieldWidth), FieldWidth)
        run_by   == Ljust(Prefix(parts[2], FieldWidth), FieldWidth)
        joined   == Join(SubSeq(parts, 3, Len(parts)))
        date_str == Ljust(IF Len(joined) > FieldWidth
                          THEN Prefix(joined, FieldWidth)
                          ELSE joined, FieldWidth)
    IN  pgm \o run_by \o date_str \o PGM_LABEL \o <<NL>>

\* line 139 and line 141: a line at which the PGM loop reaches its `break`
IsLongPgmLine(l) == HasPgmLabel(l) /\ Len(Strip(l)) > DataWidth

\* lines 138-155: index of the line the PGM repair rewrites, 0 if it does not
pgm_repair_index(ls) ==
    LET i == FirstIndex({ k \in 1..Len(ls) : IsLongPgmLine(ls[k]) })
    IN  IF i # 0 /\ Len(Split(ls[i])) >= 3 THEN i ELSE 0

\* lines 137-155: the PGM / RUN BY / DATE loop
fix_pgm_line(ls) ==
    IF pgm_repair_index(ls) = 0 THEN ls
    ELSE [ls EXCEPT ![pgm_repair_index(ls)] = pgm_repaired_line(@)]

\* lines 167-183: one header line through validate_and_fix_rinex_header_line
fixed_header_line(l) ==
    LET content == RstripNewline(l)
        fixed   == validate_and_fix_rinex_header_line(content)
    IN  IF fixed # content THEN fixed \o <<NL>> ELSE l

\* lines 157-183: the per-line loop, which skips data lines and blank lines
\* and breaks at the first other line holding END OF HEADER
fix_header_lines(ls) ==
    LET stop == FirstIndex({ k \in 1..Len(ls) : IsLoopStop(ls[k]) })
        last == IF stop = 0 THEN Len(ls) ELSE stop - 1
    IN  [i \in 1..Len(ls) |->
            IF i <= last /\ ~IsDataLine(ls[i]) /\ ~IsBlankLine(ls[i])
            THEN fixed_header_line(ls[i])
            ELSE ls[i]]

-----------------------------------------------------------------------------
(* edit_rinex_header, lines 197-253: the converter argument list           *)

\* Python None, which no str equals
None == <<"None">>

\* `if x:` for an optional str: neither None nor ''
Truthy(x) == x # None /\ x # <<>>

LowerCase == <<"a", "b", "c", "d", "e", "f", "g", "h", "i", "j", "k", "l", "m",
               "n", "o", "p", "q", "r", "s", "t", "u", "v", "w", "x", "y", "z">>
UpperCase == <<"A", "B", "C", "D", "E", "F", "G", "H", "I", "J", "K", "L", "M",
               "N", "O", "P", "Q", "R", "S", "T", "U", "V", "W", "X", "Y", "Z">>

\* c.upper() for one ASCII character
upper_char(c) ==
    IF \E k \in 1..Len(LowerCase) : LowerCase[k] = c
    THEN UpperCase[CHOOSE k \in 1..Len(LowerCase) : LowerCase[k] = c]
    ELSE c

\* s.upper()
upper(s) == [i \in 1..Len(s) |-> upper_char(s[i])]

\* the truncation lengths of lines 203, 207, 211, 221 and 228
MarkerNameWidth == 60
AgencyWidth == 40
OperatorWidth == 20
MarkerNumberWidth == 20
AntennaNumberWidth == 20

\* variant that cuts the text before it trims it
metadata_value_cut_first(text, n) == Strip(Prefix(upper(text), n))

\* text.upper().strip()[:n]
metadata_value(text, n) == Prefix(Strip(upper(text)), n)

\* one args.extend([flag, value, ...])
option(flag, values) == [flag |-> flag, values |-> values]

\* float(tok) succeeds; decimal literals [-]digits[.digits] are the numeric
\* forms the coordinate inputs below are made of
is_float(tok) ==
    LET body == IF tok # <<>> /\ tok[1] = "-" THEN Tail(tok) ELSE tok
        dot  == Find(body, <<".">>)
        int  == IF dot < 0 THEN body ELSE Prefix(body, dot)
        frac == IF dot < 0 THEN <<>> ELSE SubSeq(body, dot + 2, Len(body))
    IN  /\ int # <<>>
        /\ \A k \in 1..Len(int) : int[k] \in Digits
        /\ dot >= 0 => frac # <<>>
        /\ \A k \in 1..Len(frac) : frac[k] \in Digits

\* str(float(tok)) for a decimal literal without superfluous zeros: an
\* integer literal gains '.0'
float_str(tok) == IF Find(tok, <<".">>) < 0 THEN tok \o <<".", "0">> ELSE tok

\* number of coordinates of a position
CoordCount == 3

\* variant that reads the first three tokens and ignores further ones
position_options_first_three(flag, text) ==
    LET coords == Split(text)
    IN  IF Len(coords) >= CoordCount /\ \A k \in 1..CoordCount : is_float(coords[k])
        THEN <<option(flag, [k \in 1..CoordCount |-> float_str(coords[k])])>>
        ELSE <<>>

\* lines 232-239 and 244-250: the position option made from `text`, none when
\* it does not split into three numbers
position_options(flag, text) ==
    LET coords == Split(text)
    IN  IF Len(coords) = CoordCount /\ \A k \in 1..Len(coords) : is_float(coords[k])
        THEN <<option(flag, [k \in 1..CoordCount |-> float_str(coords[k])])>>
        ELSE <<>>

\* lines 240-241 and 249-250: the warning of the `except ValueError`, which
\* only a text of three tokens can reach
position_warning(text) ==
    LET coords == Split(text)
    IN  IF Len(coords) = CoordCount /\ \E k \in 1..Len(coords) : ~is_float(coords[k])
        THEN 1
        ELSE 0

\* lines 230-250: the warnings logged for the two position arguments
station_location_warnings(cartesian, llh) ==
    IF Truthy(cartesian) THEN position_warning(cartesian)
    ELSE IF Truthy(llh) THEN position_warning(llh)
    ELSE 0

\* variant that handles the geodetic position whether or not a Cartesian
\* one was given
station_location_options_both(cartesian, llh) ==
    (IF Truthy(cartesian) THEN position_options("-O.px", cartesian) ELSE <<>>)
    \o (IF Truthy(llh) THEN position_options("-O.pg", llh) ELSE <<>>)

\* lines 230-250: `if station_cartesian: ... elif station_llh: ...`
station_location_options(cartesian, llh) ==
    IF Truthy(cartesian) THEN position_options("-O.px", cartesian)
    ELSE IF Truthy(llh) THEN position_options("-O.pg", llh)
    ELSE <<>>

\* lines 197-250: the options added to `args`, in order
build_teqc_args(st, org, usr, ant, mnum, anum, cartesian, llh) ==
    << option("-O.mo", <<metadata_value(st, MarkerNameWidth)>>),
       option("-O.ag", <<metadata_value(org, AgencyWidth)>>),
       option("-O.o", <<metadata_value(usr, OperatorWidth)>>),
       option("-O.at", <<Strip(upper(ant))>>),
       option("-O.mn", <<IF Truthy(mnum)
                         THEN metadata_value(mnum, MarkerNumberWidth)
                         ELSE Spaces(MarkerNumberWidth)>>) >>
    \o (IF Truthy(anum)
        THEN <<option("-O.an", <<metadata_value(anum, AntennaNumberWidth)>>)>>
        ELSE <<>>)
    \o station_location_options(cartesian, llh)

ArgIdle ==
    /\ apc = "idle"
    /\ station = <<>> /\ organization = <<>> /\ user = <<>>
    /\ antenna_type = <<>> /\ marker_num = None /\ antenna_number = None
    /\ station_cartesian = None /\ station_llh = None
    /\ args = <<>> /\ warnings = 0
    /\ call_teqc_env = "none" /\ invoked_with = <<>> /\ call_result = "none"

-----------------------------------------------------------------------------
(* Input lines: concatenations of a few pieces                             *)

MaxPieces == 5

Field(w) == Ljust(w, FieldWidth)

Pieces == { <<SP>>, <<"A">>, Field(<<"A">>), Field(<<"4">>), Spaces(FieldWidth),
            REC_LABEL, PGM_LABEL, Field(PGM_LABEL) }

LineInputs == { Cat(ps) : ps \in UNION { [1..n -> Pieces] : n \in 0..MaxPieces } }

-----------------------------------------------------------------------------
(* Specification of one call of validate_and_fix_rinex_header_line         *)

FileIdle ==
    /\ pc = "idle" /\ caller = "none" /\ receiver_type = "none"
    /\ prepared = "none" /\ teqc_env = "none"
    /\ infile = <<>> /\ lines = <<>> /\ pgm_index = 0
    /\ infile_arg = "input" /\ temp_file = "none" /\ written = <<>>
    /\ teqc_runs = 0 /\ out_file = "untouched"
    /\ edit_result = "none" /\ result = "none"
    /\ runpkr00_exit = "none" /\ netrs_teqc_exit = "none"
    /\ netrs_result = "none"

LineInit ==
    /\ IoIdle
    /\ lpc = "input"
    /\ line_content \in LineInputs
    /\ returned_line = <<>>
    /\ rule = "none"
    /\ FileIdle
    /\ ArgIdle

CallValidate ==
    /\ lpc = "input"
    /\ returned_line' = validate_and_fix_rinex_header_line(line_content)
    /\ rule' = validate_branch(line_content)
    /\ lpc' = "returned"
    /\ UNCHANGED <<ioVars, line_content, fileVars, argVars, posVars>>

LineNext == CallValidate

SpecLine == LineInit /\ [][LineNext]_vars

-----------------------------------------------------------------------------
(* Input files: up to MaxLines lines, each ending with a newline           *)

MaxLines == 2

FA == Field(<<"A">>)
F4 == Field(<<"4">>)

FileLineContents ==
    { \* REC # / TYPE / VERS with the NetR8 leading space, serial number first
      F4 \o FA \o FA \o <<SP>> \o REC_LABEL,
      \* the same defect behind a data zone that starts with a letter
      FA \o FA \o FA \o <<SP>> \o REC_LABEL,
      \* well-formed PGM / RUN BY / DATE, one word per field
      FA \o FA \o FA \o PGM_LABEL,
      \* well-formed PGM / RUN BY / DATE whose program field starts with a digit
      F4 \o FA \o FA \o PGM_LABEL,
      \* NetR9 shape: three tokens, label before column 61, more than 60 chars
      FA \o FA \o <<"A", SP>> \o PGM_LABEL,
      \* one token before a label that sits beyond column 61
      FA \o Spaces(FieldWidth) \o Spaces(FieldWidth) \o <<SP>> \o PGM_LABEL,
      \* one token before the label, short line
      <<"A", SP>> \o PGM_LABEL,
      \* the label text twice
      FA \o FA \o PGM_LABEL \o <<SP>> \o PGM_LABEL,
      \* END OF HEADER record
      Spaces(DataWidth) \o EOH_LABEL,
      \* observation data
      <<"4", SP, "A">>,
      \* blank line
      <<>>,
      \* header record without a label
      FA,
      \* record longer than 80 characters
      FA \o FA \o FA \o FA \o <<"A">> }

FileLines == { c \o <<NL>> : c \in FileLineContents }

Files == UNION { [1..n -> FileLines] : n \in 0..MaxLines }

-----------------------------------------------------------------------------
(* ftp_funcs.py: process_downloaded_file, and the call of edit_rinex_header *)

ReceiverTypes == {"NetRS", "NetR8", "NetR9", "Mosaic", "Unknown"}

Callers == {"direct", "process_downloaded_file"}

\* what the converter can do when it is run
TeqcOutcomes == {"ok", "nonzero", "empty", "raises"}

\* outcomes of the preparation that precedes the header edit
PrepOutcomes(rt) ==
    CASE rt = "NetRS"             -> {"ok", "failed", "raised"}
      [] rt \in {"NetR8", "NetR9"} -> {"ok", "bad_zip", "no_rinex", "missing", "raised"}
      [] rt = "Mosaic"            -> {"ok", "missing", "raised"}
      [] OTHER                    -> {"unsupported"}

\* number of parameters of edit_rinex_header
EditRinexHeaderParams == 10

\* number of arguments a caller passes to edit_rinex_header
CallArguments(c) == IF c = "process_downloaded_file" THEN 11 ELSE 6

LineIdle ==
    /\ lpc = "idle" /\ line_content = <<>> /\ returned_line = <<>>
    /\ rule = "none"

Init ==
    /\ IoIdle
    /\ LineIdle
    /\ ArgIdle
    /\ caller \in Callers
    /\ receiver_type \in (IF caller = "direct" THEN {"none"} ELSE ReceiverTypes)
    /\ pc = (IF caller = "direct" THEN "call_edit" ELSE "prepare")
    /\ prepared = "none"
    /\ teqc_env \in TeqcOutcomes
    /\ infile = <<>> /\ lines = <<>> /\ pgm_index = 0
    /\ infile_arg = "input" /\ temp_file = "none" /\ written = <<>>
    /\ teqc_runs = 0 /\ out_file = "untouched"
    /\ edit_result = "none" /\ result = "none"
    /\ runpkr00_exit = "none" /\ netrs_teqc_exit = "none"
    /\ netrs_result = "none"

\* how a subprocess.run of convert_netrs can end: exit status 0, another
\* exit status, or an exception of subprocess.run itself
ToolExits == {"ok", "nonzero", "raises"}

\* conversion_funcs.py lines 311-348: convert_netrs returns None from its two
\* except blocks and True otherwise; no exit status is looked at
convert_netrs(dec, conv) ==
    IF dec = "raises" \/ conv = "raises" THEN "None" ELSE "True"

\* ftp_funcs.py lines 861-888: `if convert_netrs(...)` under the outer try
netrs_prepared(res) ==
    CASE res = "True"   -> "ok"
      [] res = "raised" -> "raised"
      [] OTHER          -> "failed"

\* process_downloaded_file up to the call of edit_rinex_header
Prepare ==
    /\ pc = "prepare"
    /\ IF receiver_type = "NetRS"
       THEN \E dec \in ToolExits, conv \in ToolExits, escapes \in BOOLEAN :
               /\ runpkr00_exit' = dec
               /\ netrs_teqc_exit' = (IF dec = "raises" THEN "none" ELSE conv)
               /\ netrs_result' = (IF escapes THEN "raised"
                                   ELSE convert_netrs(dec, conv))
               /\ prepared' = netrs_prepared(netrs_result')
       ELSE /\ \E o \in PrepOutcomes(receiver_type) : prepared' = o
            /\ UNCHANGED netrsVars
    /\ pc' = (IF prepared' = "ok" THEN "call_edit" ELSE "returned")
    /\ result' = (IF prepared' = "ok" THEN result ELSE "False")
    /\ UNCHANGED <<ioVars, lineVars, argVars, posVars, caller, receiver_type,
                   teqc_env, infile, lines, pgm_index, infile_arg, temp_file,
                   written, teqc_runs, out_file, edit_result>>

\* the call binds the arguments to the parameters of edit_rinex_header
CallEditRinexHeader ==
    /\ pc = "call_edit"
    /\ IF CallArguments(caller) > EditRinexHeaderParams
       THEN pc' = "edit_returned" /\ edit_result' = "TypeError"
       ELSE pc' = "read" /\ edit_result' = edit_result
    /\ UNCHANGED <<ioVars, lineVars, argVars, posVars, netrsVars, caller, receiver_type, prepared, teqc_env, infile,
                   lines, pgm_index, infile_arg, temp_file, written, teqc_runs,
                   out_file, result>>

\* lines 121-122: open(infile) and readlines()
ReadLines ==
    /\ pc = "read"
    /\ \E f \in Files, readable \in BOOLEAN :
          IF readable
          THEN /\ infile' = f /\ lines' = f /\ pc' = "eoh"
               /\ edit_result' = edit_result
          ELSE /\ infile' = infile /\ lines' = lines /\ pc' = "edit_returned"
               /\ edit_result' = "False"
    /\ UNCHANGED <<ioVars, lineVars, argVars, posVars, netrsVars, caller, receiver_type, prepared, teqc_env,
                   pgm_index, infile_arg, temp_file, written, teqc_runs,
                   out_file, result>>

\* lines 124-135
InsertEndOfHeader ==
    /\ pc = "eoh"
    /\ lines' = insert_end_of_header(lines)
    /\ pc' = "pgm"
    /\ UNCHANGED <<ioVars, lineVars, argVars, posVars, netrsVars, caller, receiver_type, prepared, teqc_env, infile,
                   pgm_index, infile_arg, temp_file, written, teqc_runs,
                   out_file, edit_result, result>>

\* lines 137-155
FixPgmLine ==
    /\ pc = "pgm"
    /\ pgm_index' = pgm_repair_index(lines)
    /\ lines' = fix_pgm_line(lines)
    /\ pc' = "fix"
    /\ UNCHANGED <<ioVars, lineVars, argVars, posVars, netrsVars, caller, receiver_type, prepared, teqc_env, infile,
                   infile_arg, temp_file, written, teqc_runs, out_file,
                   edit_result, result>>

\* lines 157-183
FixHeaderLines ==
    /\ pc = "fix"
    /\ lines' = fix_header_lines(lines)
    /\ pc' = "write_temp"
    /\ UNCHANGED <<ioVars, lineVars, argVars, posVars, netrsVars, caller, receiver_type, prepared, teqc_env, infile,
                   pgm_index, infile_arg, temp_file, written, teqc_runs,
                   out_file, edit_result, result>>

\* variant in which a failed write does not end the call
WriteTempFileThenCarryOn ==
    /\ pc = "write_temp"
    /\ \E writable \in BOOLEAN :
          IF writable
          THEN /\ temp_file' = "exists" /\ written' = lines
               /\ infile_arg' = "temp" /\ pc' = "inject"
          ELSE /\ temp_file' = temp_file /\ written' = written
               /\ infile_arg' = infile_arg /\ pc' = "inject"
    /\ UNCHANGED <<ioVars, lineVars, argVars, posVars, netrsVars, caller, receiver_type, prepared, teqc_env, infile,
                   lines, pgm_index, teqc_runs, out_file, edit_result, result>>

\* lines 185-195: write the '.fixed' file and make `infile` name it
WriteTempFile ==
    /\ pc = "write_temp"
    /\ \E writable \in BOOLEAN :
          IF writable
          THEN /\ temp_file' = "exists" /\ written' = lines
               /\ infile_arg' = "temp" /\ pc' = "inject"
               /\ edit_result' = edit_result
          ELSE /\ temp_file' = temp_file /\ written' = written
               /\ infile_arg' = infile_arg /\ pc' = "edit_returned"
               /\ edit_result' = "False"
    /\ UNCHANGED <<ioVars, lineVars, argVars, posVars, netrsVars, caller, receiver_type, prepared, teqc_env, infile,
                   lines, pgm_index, teqc_runs, out_file, result>>

\* lines 293-297 and 304-308: os.remove(temp_file) if temp_file != infile
cleaned_up(tf, arg) == IF tf # "none" /\ arg # "temp" THEN "removed" ELSE tf

\* content of the file the local name `infile` refers to at line 253
teqc_input == IF infile_arg = "temp" THEN written ELSE infile

\* variant that takes any completed run of the converter for a success
teqc_verdict_any_exit(env) ==
    IF env \in {"ok", "nonzero"} THEN "True" ELSE "False"

\* lines 270-309: what edit_rinex_header returns once the converter was run
teqc_verdict(env) == IF env = "ok" THEN "True" ELSE "False"

\* lines 258-309: check the input, run the converter, write and verify the
\* output, clean up
RunTeqc ==
    /\ pc = "inject"
    /\ pc' = "edit_returned"
    /\ IF Cat(teqc_input) = <<>>
       THEN /\ edit_result' = "False"
            /\ UNCHANGED <<teqc_runs, out_file, temp_file>>
       ELSE /\ teqc_runs' = teqc_runs + 1
            /\ edit_result' = teqc_verdict(teqc_env)
            /\ CASE teqc_env = "raises" ->
                      /\ temp_file' = cleaned_up(temp_file, infile_arg)
                      /\ out_file' = out_file
                 [] teqc_env = "nonzero" ->
                      /\ UNCHANGED <<temp_file, out_file>>
                 [] teqc_env = "empty" ->
                      /\ out_file' = "empty"
                      /\ temp_file' = temp_file
                 [] OTHER ->
                      \* lines 279-280: stdout is written to the output file
                      /\ out_file' = "nonempty"
                      /\ temp_file' = cleaned_up(temp_file, infile_arg)
    /\ UNCHANGED <<ioVars, lineVars, argVars, posVars, netrsVars, caller, receiver_type, prepared, teqc_env, infile,
                   lines, pgm_index, infile_arg, written, result>>

\* variant of the caller without the outer `except Exception`
ReturnToCallerUncaught ==
    /\ pc = "edit_returned"
    /\ pc' = "returned"
    /\ result' = edit_result
    /\ UNCHANGED <<ioVars, lineVars, argVars, posVars, netrsVars, caller, receiver_type,
                   prepared, teqc_env, infile, lines, pgm_index, infile_arg,
                   temp_file, written, teqc_runs, out_file, edit_result>>

\* the caller receives the outcome; process_downloaded_file turns an
\* exception of the call into False
ReturnToCaller ==
    /\ pc = "edit_returned"
    /\ pc' = "returned"
    /\ result' = IF caller = "process_downloaded_file" /\ edit_result # "True"
                 THEN "False"
                 ELSE edit_result
    /\ UNCHANGED <<ioVars, lineVars, argVars, posVars, netrsVars, caller, receiver_type, prepared, teqc_env, infile,
                   lines, pgm_index, infile_arg, temp_file, written, teqc_runs,
                   out_file, edit_result>>

Next ==
    \/ Prepare
    \/ CallEditRinexHeader
    \/ ReadLines
    \/ InsertEndOfHeader
    \/ FixPgmLine
    \/ FixHeaderLines
    \/ WriteTempFile
    \/ RunTeqc
    \/ ReturnToCaller

Spec == Init /\ [][Next]_vars

-----------------------------------------------------------------------------
(* Specification of the argument list of one call of edit_rinex_header     *)

MaxMetaPieces == 5
MaxCoordTokens == 3

\* twenty lower-case letters
Block20 == [i \in 1..FieldWidth |-> "n"]

MetaPieces == { <<SP>>, <<"a">>, <<"B">>, Block20 }

MetaTexts ==
    { Cat(ps) : ps \in UNION { [1..n -> MetaPieces] : n \in 0..MaxMetaPieces } }

\* an integer, a negative decimal fraction and a word that is no number
CoordTokens == { <<"1">>, <<"-", "2", ".", "5">>, <<"x">> }

CoordTexts ==
    { Join(ts) : ts \in UNION { [1..n -> CoordTokens] : n \in 0..MaxCoordTokens } }

\* the call made by convert_trimble.py: default metadata, an antenna type,
\* the optional arguments left out
PlainCall ==
    [ station           |-> <<"U", "N", "K", "N", "O", "W", "N">>,
      organization      |-> <<"U", "N", "K", "N", "O", "W", "N">>,
      user              |-> <<"U", "N", "K", "N", "O", "W", "N">>,
      antenna_type      |-> <<"T", "R", "M">>,
      marker_num        |-> None,
      antenna_number    |-> None,
      station_cartesian |-> None,
      station_llh       |-> None ]

MetaFields == { "station", "organization", "user", "antenna_type",
                "marker_num", "antenna_number" }

\* calls in which one metadata argument is any text, and calls in which the
\* two positions are any coordinate text or None
ArgCalls ==
    { [PlainCall EXCEPT ![f] = t] : f \in MetaFields, t \in MetaTexts }
    \cup
    { [PlainCall EXCEPT !.station_cartesian = c, !.station_llh = l] :
          c \in CoordTexts \cup {None}, l \in CoordTexts \cup {None} }

ArgsInit ==
    /\ IoIdle
    /\ LineIdle
    /\ FileIdle
    /\ apc = "call"
    /\ \E c \in ArgCalls :
          /\ station = c.station /\ organization = c.organization
          /\ user = c.user /\ antenna_type = c.antenna_type
          /\ marker_num = c.marker_num /\ antenna_number = c.antenna_number
          /\ station_cartesian = c.station_cartesian
          /\ station_llh = c.station_llh
    /\ args = <<>> /\ warnings = 0
    /\ call_teqc_env = "none" /\ invoked_with = <<>> /\ call_result = "none"

\* lines 197-250
BuildTeqcArgs ==
    /\ apc = "call"
    /\ args' = build_teqc_args(station, organization, user, antenna_type,
                               marker_num, antenna_number, station_cartesian,
                               station_llh)
    /\ warnings' = station_location_warnings(station_cartesian, station_llh)
    /\ apc' = "built"
    /\ UNCHANGED <<ioVars, lineVars, fileVars, posVars, station, organization, user,
                   antenna_type, marker_num, antenna_number, station_cartesian,
                   station_llh>>

ArgsNext == BuildTeqcArgs

SpecArgs == ArgsInit /\ [][ArgsNext]_vars

-----------------------------------------------------------------------------
(* Specification of one call of edit_rinex_header from the argument list   *)
(* to its return, for calls that differ in their position arguments        *)

MaxPositionTokens == 4

PositionTexts ==
    { Join(ts) : ts \in UNION { [1..n -> CoordTokens] : n \in 0..MaxPositionTokens } }

\* a geodetic position of three numbers, and one of two
LlhSamples == { Join(<<<<"1">>, <<"-", "2", ".", "5">>, <<"1">>>>),
                Join(<<<<"1">>, <<"1">>>>) }

\* calls with any Cartesian text beside no, a good or a bad geodetic one, and
\* calls with any geodetic text alone
PositionCalls ==
    { [PlainCall EXCEPT !.station_cartesian = c, !.station_llh = l] :
          c \in PositionTexts \cup {None}, l \in LlhSamples \cup {None} }
    \cup
    { [PlainCall EXCEPT !.station_llh = l] : l \in PositionTexts }

PositionInit ==
    /\ IoIdle
    /\ LineIdle
    /\ FileIdle
    /\ apc = "call"
    /\ \E c \in PositionCalls :
          /\ station = c.station /\ organization = c.organization
          /\ user = c.user /\ antenna_type = c.antenna_type
          /\ marker_num = c.marker_num /\ antenna_number = c.antenna_number
          /\ station_cartesian = c.station_cartesian
          /\ station_llh = c.station_llh
    /\ args = <<>> /\ warnings = 0
    /\ call_teqc_env = "none" /\ invoked_with = <<>> /\ call_result = "none"

\* lines 253-309: subprocess.run(args) and the verdict on its outcome
InvokeTeqc ==
    /\ apc = "built"
    /\ \E env \in TeqcOutcomes :
          /\ call_teqc_env' = env
          /\ call_result' = teqc_verdict(env)
    /\ invoked_with' = args
    /\ apc' = "returned"
    /\ UNCHANGED <<ioVars, lineVars, fileVars, station, organization, user,
                   antenna_type, marker_num, antenna_number, station_cartesian,
                   station_llh, args, warnings>>

PositionNext ==
    \/ BuildTeqcArgs
    \/ InvokeTeqc

SpecPosition == PositionInit /\ [][PositionNext]_vars

-----------------------------------------------------------------------------
(* Properties of validate_and_fix_rinex_header_line                        *)

\* columns 61-80 of s are one space followed by 'REC # / TYPE / VERS'
HasNetR8Defect(s) == Slice(s, DataWidth, LineWidth) = <<SP>> \o REC_LABEL

\* every occurrence of 'PGM / RUN BY / DATE' in s starts at column 61
PgmLabelOnlyAtColumn61(s) ==
    \A i \in 0..(Len(s) - Len(PGM_LABEL)) :
        SubSeq(s, i + 1, i + Len(PGM_LABEL)) = PGM_LABEL => i = DataWidth

\* C1: a line whose columns 61-80 are a space followed by
\* 'REC # / TYPE / VERS' is returned with its first 60 characters kept, the
\* label starting at column 61 and spaces padding it to exactly 80 characters.
C1_NetR8LineRepaired ==
    (lpc = "returned" /\ HasNetR8Defect(line_content)) =>
        /\ Len(returned_line) = LineWidth
        /\ Prefix(returned_line, DataWidth) = Prefix(line_content, DataWidth)
        /\ Slice(returned_line, DataWidth, LineWidth) = REC_LABEL \o <<SP>>

C1_Witness ==
    /\ lpc = "returned"
    /\ HasNetR8Defect(line_content)
    /\ rule = "netr8"
    /\ FirstIsDigit(line_content)

\* C8: when the NetR8 or the NetR9 rule changed the line, the returned line
\* carries the complete canonical label starting exactly at index 60.
C8_LabelAtColumn61 ==
    /\ (lpc = "returned" /\ rule = "netr8") =>
          Slice(returned_line, DataWidth, DataWidth + Len(REC_LABEL)) = REC_LABEL
    /\ (lpc = "returned" /\ rule = "netr9") =>
          Slice(returned_line, DataWidth, DataWidth + Len(PGM_LABEL)) = PGM_LABEL

\* C9: a line of at most 80 characters without the NetR8 defect and whose
\* 'PGM / RUN BY / DATE' label, if any, already starts at column 61 is
\* returned identical to the input, trailing padding included.
C9_PassThrough ==
    (/\ lpc = "returned"
     /\ Len(line_content) <= LineWidth
     /\ ~HasNetR8Defect(line_content)
     /\ PgmLabelOnlyAtColumn61(line_content)) =>
        returned_line = line_content

\* C10: the returned line is never longer than 80 characters.
C10_AtMost80 == lpc = "returned" => Len(returned_line) <= LineWidth

C10_Witness ==
    /\ lpc = "returned"
    /\ Len(line_content) > LineWidth
    /\ rule = "truncate"
    /\ Len(returned_line) = LineWidth

-----------------------------------------------------------------------------
(* Properties of edit_rinex_header's normalization and of its callers      *)

HasEohLabel(l) == Contains(l, EOH_LABEL)

\* the list `lines` as it is when the repair loops start: the input with
\* the END OF HEADER record added where it was missing
LinesBeforeRepair == insert_end_of_header(infile)

\* indices of the lines that precede the first END OF HEADER line of ls
HeaderIndices(ls) ==
    LET eoh == FirstIndex({ k \in 1..Len(ls) : HasEohLabel(ls[k]) })
    IN  { i \in 1..Len(ls) : eoh = 0 \/ i < eoh }

\* the whitespace-separated tokens that precede the PGM label of l
TokensBeforePgmLabel(l) == Split(Prefix(l, Find(l, PGM_LABEL)))

\* the k-th of these tokens, empty if there are fewer
TokenAt(toks, k) == IF k <= Len(toks) THEN toks[k] ELSE <<>>

\* C2: in the '.fixed' file every non-blank header line that came in with
\* the NetR8 defect has 'REC # / TYPE / VERS' starting at column 61,
\* whatever its data zone holds.
C2_NetR8DefectRemoved ==
    temp_file = "exists" =>
        \A i \in HeaderIndices(written) :
            (/\ ~IsBlankLine(LinesBeforeRepair[i])
             /\ HasNetR8Defect(RstripNewline(LinesBeforeRepair[i]))) =>
                Slice(written[i], DataWidth, DataWidth + Len(REC_LABEL)) = REC_LABEL

\* C3: process_downloaded_file returns True when the preparation succeeded
\* and the converter succeeds, and edit_rinex_header accepts the arguments
\* it is called with.
C3_ProcessReturnsTrue ==
    (/\ pc = "returned"
     /\ caller = "process_downloaded_file"
     /\ prepared = "ok"
     /\ teqc_env = "ok") =>
        /\ edit_result # "TypeError"
        /\ result = "True"

\* C4: the line the PGM repair produces has program = first token before
\* the label, run-by = second token before the label, date = the remaining
\* tokens before the label joined by single spaces and cut to 20 characters.
C4_FieldsFromTokensBeforeLabel ==
    (pc = "fix" /\ pgm_index # 0) =>
        LET toks == TokensBeforePgmLabel(LinesBeforeRepair[pgm_index])
            new  == lines[pgm_index]
        IN  /\ Slice(new, 0, FieldWidth)
                 = Ljust(Prefix(TokenAt(toks, 1), FieldWidth), FieldWidth)
            /\ Slice(new, FieldWidth, 2 * FieldWidth)
                 = Ljust(Prefix(TokenAt(toks, 2), FieldWidth), FieldWidth)
            /\ Slice(new, 2 * FieldWidth, 3 * FieldWidth)
                 = Ljust(Prefix(Join(SubSeq(toks, 3, Len(toks))), FieldWidth),
                         FieldWidth)

\* C5: the line the PGM repair rewrote is written as three 20-character
\* fields followed at once by the label at column 61, at most 80 characters.
C5_PgmLineLayout ==
    (temp_file = "exists" /\ pgm_index # 0) =>
        LET w == RstripNewline(written[pgm_index])
        IN  /\ Len(w) = DataWidth + Len(PGM_LABEL)
            /\ Slice(w, DataWidth, LineWidth) = PGM_LABEL
            /\ Len(w) <= LineWidth

\* the repair fired and the per-line loop then changed the line once more
C5_Witness ==
    /\ temp_file = "exists"
    /\ pgm_index # 0
    /\ written[pgm_index] # pgm_repaired_line(LinesBeforeRepair[pgm_index])
    /\ written[pgm_index] # LinesBeforeRepair[pgm_index]

\* C6: a header line with 'PGM / RUN BY / DATE' and fewer than 3 tokens
\* before the label is written unchanged.
C6_FewTokensUnchanged ==
    temp_file = "exists" =>
        \A i \in HeaderIndices(LinesBeforeRepair) :
            (/\ HasPgmLabel(LinesBeforeRepair[i])
             /\ Len(TokensBeforePgmLabel(LinesBeforeRepair[i])) < 3) =>
                written[i] = LinesBeforeRepair[i]

\* C7: a 'PGM / RUN BY / DATE' header line of at most 80 characters whose
\* label already starts at column 61 is written unchanged.
C7_WellFormedPgmUnchanged ==
    temp_file = "exists" =>
        \A i \in HeaderIndices(LinesBeforeRepair) :
            (/\ Len(RstripNewline(LinesBeforeRepair[i])) <= LineWidth
             /\ Find(LinesBeforeRepair[i], PGM_LABEL) = DataWidth) =>
                written[i] = LinesBeforeRepair[i]

\* index of the first END OF HEADER line of ls, 0 if there is none
EohIndex(ls) == FirstIndex({ k \in 1..Len(ls) : HasEohLabel(ls[k]) })

\* number of lines of ls that contain 'END OF HEADER'
EohCount(ls) == Cardinality({ k \in 1..Len(ls) : HasEohLabel(ls[k]) })

\* C11: every line located after the END OF HEADER line is written to the
\* '.fixed' file identical to the corresponding input line.
C11_LinesAfterEohUnchanged ==
    temp_file = "exists" =>
        /\ Len(written) = Len(LinesBeforeRepair)
        /\ \A i \in 1..Len(written) :
              (EohIndex(LinesBeforeRepair) # 0 /\ i > EohIndex(LinesBeforeRepair))
                  => written[i] = LinesBeforeRepair[i]

\* C12: the '.fixed' file holds exactly one line containing 'END OF HEADER',
\* whatever number of such lines the input held.
C12_ExactlyOneEoh ==
    temp_file = "exists" => EohCount(written) = 1

\* C13: when no input line contains 'END OF HEADER' and some non-blank line
\* begins with a digit, exactly one record of 60 spaces and 'END OF HEADER'
\* is inserted at the index of the first such line; the lines before it keep
\* their position, that line and the later ones move down by one in order.
C13_InsertedBeforeFirstDataLine ==
    (EohCount(infile) = 0 /\ DataLineIndices(infile) # {}) =>
        LET d == FirstIndex(DataLineIndices(infile))
        IN  /\ pc = "pgm" =>
                  /\ Len(lines) = Len(infile) + 1
                  /\ lines[d] = EOH_LINE
                  /\ \A i \in 1..Len(infile) :
                        lines[IF i < d THEN i ELSE i + 1] = infile[i]
            /\ temp_file = "exists" =>
                  /\ Len(written) = Len(infile) + 1
                  /\ { k \in 1..Len(written) : HasEohLabel(written[k]) } = {d}
                  /\ written[d] = EOH_LINE

\* the record went in below a header line and above the first data line
C13_Witness ==
    /\ temp_file = "exists"
    /\ EohCount(infile) = 0
    /\ DataLineIndices(infile) # {}
    /\ FirstIndex(DataLineIndices(infile)) > 1
    /\ written[FirstIndex(DataLineIndices(infile))] = EOH_LINE
    /\ Len(written) = Len(infile) + 1

\* C14: when no input line contains 'END OF HEADER' and no non-blank line
\* begins with a digit, the synthetic record is the last line of the
\* '.fixed' file, after every input line.
C14_AppendedAtEndOfFile ==
    (/\ temp_file = "exists"
     /\ EohCount(infile) = 0
     /\ DataLineIndices(infile) = {}) =>
        /\ Len(written) = Len(infile) + 1
        /\ written[Len(written)] = EOH_LINE
        /\ EohIndex(written) = Len(written)

-----------------------------------------------------------------------------
(* Properties of edit_rinex_header's injection stage and of its step order *)

\* C15: given an input file that exists and is zero bytes long,
\* edit_rinex_header returns False, the converter is not run and the output
\* file is neither created nor written.
C15_EmptyInputRejected ==
    (/\ pc = "edit_returned"
     /\ caller = "direct"
     /\ infile = <<>>) =>
        /\ edit_result = "False"
        /\ teqc_runs = 0
        /\ out_file = "untouched"

\* C16: when edit_rinex_header returns after the '.fixed' file was created,
\* that file no longer exists, on the success path and on every failure path.
C16_TempFileRemoved ==
    (pc \in {"edit_returned", "returned"} /\ temp_file # "none") =>
        temp_file = "removed"

\* C17: edit_rinex_header returns True only if the converter exited with
\* status 0 and the output file exists and is non-empty; a non-zero exit, or
\* a zero exit with an empty or missing output file, makes it return False.
C17_TrueOnlyOnVerifiedOutput ==
    /\ edit_result = "True" =>
          /\ teqc_runs = 1
          /\ teqc_env = "ok"
          /\ out_file = "nonempty"
    /\ (/\ pc = "edit_returned"
        /\ teqc_runs = 1
        /\ (teqc_env = "nonzero" \/ out_file # "nonempty")) =>
          edit_result = "False"

C17_Witness ==
    /\ pc = "edit_returned"
    /\ teqc_runs = 1
    /\ edit_result = "True"
    /\ out_file = "nonempty"
    /\ Len(infile) > 1

\* position of a step in the order Start, Normalizing, Injecting, returned
PcRank(p) ==
    CASE p = "prepare"       -> 0
      [] p = "call_edit"     -> 1
      [] p = "read"          -> 2
      [] p = "eoh"           -> 3
      [] p = "pgm"           -> 4
      [] p = "fix"           -> 5
      [] p = "write_temp"    -> 6
      [] p = "inject"        -> 7
      [] p = "edit_returned" -> 8
      [] OTHER               -> 9

\* C18: within one call the steps only move forward (none is retried); the
\* converter is invoked at most once, and only when normalization has written
\* the '.fixed' file; a failed normalization returns False with the
\* converter never run.
C18_StepOrder ==
    [][ /\ PcRank(pc') > PcRank(pc)
        /\ teqc_runs' # teqc_runs =>
              /\ pc = "inject"
              /\ teqc_runs = 0 /\ teqc_runs' = 1
              /\ temp_file = "exists"
              /\ written = lines
        /\ (pc \in {"read", "write_temp"} /\ pc' = "edit_returned") =>
              /\ edit_result' = "False"
              /\ teqc_runs' = 0
      ]_vars

\* a call that read its input, failed to write the '.fixed' file and
\* returned False without the converter
C18_Witness ==
    /\ pc = "edit_returned"
    /\ infile # <<>>
    /\ temp_file = "none"
    /\ edit_result = "False"
    /\ teqc_runs = 0

-----------------------------------------------------------------------------
(* Properties of the converter argument list                               *)

\* the options of `args` that carry flag
OptionsOf(flag) == { k \in 1..Len(args) : args[k].flag = flag }

\* the value of the only option of `args` that carries flag
ValueOf(flag) == args[FirstIndex(OptionsOf(flag))].values[1]

\* v is text upper-cased, then stripped of its leading and trailing
\* whitespace, then cut to its first n characters
IsUpperTrimCut(v, text, n) ==
    LET lead == LeadingIn(text, Whitespace)
        kept == Max(0, Len(text) - lead - TrailingIn(text, Whitespace))
    IN  /\ Len(v) = Min(n, kept)
        /\ \A i \in 1..Len(v) : v[i] = upper_char(text[lead + i])

\* C19: the values passed for -O.mo, -O.ag, -O.o, and for -O.mn and -O.an
\* when marker_num and antenna_number are provided, are the input
\* upper-cased, then whitespace-trimmed, then truncated to at most 60, 40,
\* 20, 20 and 20 characters.
C19_MetadataUpperTrimCut ==
    apc = "built" =>
        /\ Cardinality(OptionsOf("-O.mo")) = 1
        /\ IsUpperTrimCut(ValueOf("-O.mo"), station, 60)
        /\ Cardinality(OptionsOf("-O.ag")) = 1
        /\ IsUpperTrimCut(ValueOf("-O.ag"), organization, 40)
        /\ Cardinality(OptionsOf("-O.o")) = 1
        /\ IsUpperTrimCut(ValueOf("-O.o"), user, 20)
        /\ Truthy(marker_num) =>
              /\ Cardinality(OptionsOf("-O.mn")) = 1
              /\ IsUpperTrimCut(ValueOf("-O.mn"), marker_num, 20)
        /\ Truthy(antenna_number) =>
              /\ Cardinality(OptionsOf("-O.an")) = 1
              /\ IsUpperTrimCut(ValueOf("-O.an"), antenna_number, 20)

\* a station name with leading whitespace, lower-case letters and more than
\* 60 characters between its outer whitespace
C19_Witness ==
    /\ apc = "built"
    /\ LeadingIn(station, Whitespace) > 0
    /\ Len(Strip(station)) > MarkerNameWidth
    /\ upper(station) # station
    /\ Len(ValueOf("-O.mo")) = MarkerNameWidth

\* C20: the argument list holds at most one of -O.px and -O.pg; when both
\* station_cartesian and station_llh are supplied the Cartesian one takes
\* precedence and -O.pg is not emitted.
C20_OnePositionFlag ==
    apc = "built" =>
        /\ Cardinality(OptionsOf("-O.px") \cup OptionsOf("-O.pg")) <= 1
        /\ (Truthy(station_cartesian) /\ Truthy(station_llh)) =>
              /\ OptionsOf("-O.pg") = {}
              /\ position_options("-O.px", station_cartesian) # <<>>
                    => OptionsOf("-O.px") # {}

\* both positions supplied, each three numbers
C20_Witness ==
    /\ apc = "built"
    /\ Truthy(station_cartesian) /\ Truthy(station_llh)
    /\ position_options("-O.pg", station_llh) # <<>>
    /\ station_cartesian # station_llh
    /\ OptionsOf("-O.px") # {}
    /\ OptionsOf("-O.pg") = {}

-----------------------------------------------------------------------------
(* Algebraic properties of validate_and_fix_rinex_header_line              *)

PgmLabelWithin80(s) ==
    Contains(s, PGM_LABEL) => Find(s, PGM_LABEL) + Len(PGM_LABEL) <= LineWidth

C28_Idempotent ==
    lpc = "returned" =>
        validate_and_fix_rinex_header_line(returned_line) = returned_line


-----------------------------------------------------------------------------
(* Properties of the position arguments                                    *)

\* text splits into exactly three numbers
IsThreeNumbers(text) ==
    LET toks == Split(text)
    IN  Len(toks) = 3 /\ \A k \in 1..Len(toks) : is_float(toks[k])

\* a position text was supplied and is not three numbers
Malformed(text) == Truthy(text) /\ ~IsThreeNumbers(text)

\* the position text the call goes by: the Cartesian one when supplied
SuppliedPosition ==
    IF Truthy(station_cartesian) THEN station_cartesian ELSE station_llh

MetadataFlags == { "-O.mo", "-O.ag", "-O.o", "-O.at", "-O.mn" }

FlagsOf(opts) == { opts[k].flag : k \in 1..Len(opts) }

\* C21: when the supplied position is not exactly three numeric tokens, the
\* converter is still invoked, with the metadata flags and without a
\* position flag, and the call returns True when the converter succeeds.
C21_MalformedPositionOmitted ==
    (apc = "returned" /\ Malformed(SuppliedPosition)) =>
        /\ FlagsOf(invoked_with) = MetadataFlags
        /\ call_teqc_env = "ok" => call_result = "True"

\* a Cartesian position of four numbers, the converter succeeding
C21_Witness ==
    /\ apc = "returned"
    /\ Truthy(station_cartesian)
    /\ Len(Split(station_cartesian)) = 4
    /\ \A k \in 1..4 : is_float(Split(station_cartesian)[k])
    /\ call_teqc_env = "ok"
    /\ call_result = "True"

\* C22: for every malformed position text, wrong in its number of tokens or
\* holding a token that is no number, a warning is logged.
C22_MalformedPositionWarned ==
    (apc # "call" /\ (Malformed(station_cartesian) \/ Malformed(station_llh))) =>
        warnings >= 1

-----------------------------------------------------------------------------
(* Properties of the callers' error handling                               *)

\* C23: process_downloaded_file returns a boolean for every receiver type and
\* every failure inside it, the header edit call raising included.
C23_AlwaysBoolean ==
    (pc = "returned" /\ caller = "process_downloaded_file") =>
        result \in {"True", "False"}

\* the header edit call raised and the caller still returned False
C23_Witness ==
    /\ pc = "returned"
    /\ caller = "process_downloaded_file"
    /\ prepared = "ok"
    /\ edit_result = "TypeError"
    /\ result = "False"

\* C25: when the decoder or the converter started by convert_netrs exits with
\* a non-zero status, convert_netrs does not return True.
C25_NonZeroExitReported ==
    (runpkr00_exit = "nonzero" \/ netrs_teqc_exit = "nonzero") =>
        netrs_result # "True"

\* C30: whenever edit_rinex_header returns False the file at the output path
\* has the content it had before the call.
C30_OutputIntactOnFailure ==
    edit_result = "False" => out_file = "untouched"

-----------------------------------------------------------------------------
(* sweep_rinex.py: one call of move_file_safely                            *)

MaxFileSize == 3

\* a file is the pair of where its bytes came from and how many there are
File(origin, size) == <<origin, size>>
SizeOf(f) == f[2]

\* lines 139-146: the except block removes the temporary file when there is
\* one; a failure of that removal is swallowed
after_cleanup(temp) == IF temp = Absent THEN {Absent} ELSE {Absent, temp}

\* variant of the size check that lets a short copy pass
size_mismatch_never(temp, src) == FALSE

\* line 126: the copy is rejected when the two sizes differ
size_mismatch(temp, src) == SizeOf(temp) # SizeOf(src)

\* the caller found a regular file at src_path (line 162); a file of the same
\* name may already be in the archive directory
MoveInit ==
    /\ LineIdle /\ FileIdle /\ ArgIdle /\ UploadIdle /\ BatchIdle
    /\ mv_pc = "create_temp"
    /\ src_size \in 0..MaxFileSize
    /\ src_path = File("upload", src_size)
    /\ temp_path = Absent
    /\ final_path \in {Absent} \cup { File("archive", n) : n \in 0..MaxFileSize }
    /\ move_result = "none"

\* lines 139-147 after an exception: clean up, return False
MoveFails ==
    /\ temp_path' \in after_cleanup(temp_path)
    /\ mv_pc' = "returned"
    /\ move_result' = "False"
    /\ UNCHANGED <<src_size, src_path, final_path>>

\* lines 114-121: NamedTemporaryFile(dir=dest_dir, delete=False), close
CreateTemp ==
    /\ mv_pc = "create_temp"
    /\ \/ /\ temp_path' = File("new", 0)
          /\ mv_pc' = "copy"
          /\ UNCHANGED <<src_size, src_path, final_path, move_result>>
       \/ MoveFails
    /\ UNCHANGED <<lineVars, fileVars, argVars, posVars, uploadVars, batchVars>>

\* line 123: shutil.copy2(src_path, temp_path); it can raise after writing part
\* of the data, and the size check exists for a copy that is short
CopyToTemp ==
    /\ mv_pc = "copy"
    /\ \E n \in 0..SizeOf(src_path), raised \in BOOLEAN :
          /\ temp_path' \in (IF raised
                               THEN after_cleanup(File("upload", n))
                               ELSE {File("upload", n)})
          /\ mv_pc' = (IF raised THEN "returned" ELSE "verify")
          /\ move_result' = (IF raised THEN "False" ELSE move_result)
    /\ UNCHANGED <<src_size, src_path, final_path>>
    /\ UNCHANGED <<lineVars, fileVars, argVars, posVars, uploadVars, batchVars>>

\* lines 125-127
VerifySize ==
    /\ mv_pc = "verify"
    /\ IF size_mismatch(temp_path, src_path)
       THEN MoveFails
       ELSE /\ mv_pc' = "rename"
            /\ UNCHANGED <<src_size, src_path, temp_path, final_path,
                           move_result>>
    /\ UNCHANGED <<lineVars, fileVars, argVars, posVars, uploadVars, batchVars>>

\* lines 129-131: os.rename(temp_path, final_path) replaces a file already there
RenameTemp ==
    /\ mv_pc = "rename"
    /\ \/ /\ final_path' = temp_path
          /\ temp_path' = Absent
          /\ mv_pc' = "remove_src"
          /\ UNCHANGED <<src_size, src_path, move_result>>
       \/ MoveFails
    /\ UNCHANGED <<lineVars, fileVars, argVars, posVars, uploadVars, batchVars>>

\* lines 133-136: os.remove(src_path), return True
RemoveSource ==
    /\ mv_pc = "remove_src"
    /\ \/ /\ src_path' = Absent
          /\ mv_pc' = "returned"
          /\ move_result' = "True"
          /\ UNCHANGED <<src_size, temp_path, final_path>>
       \/ MoveFails
    /\ UNCHANGED <<lineVars, fileVars, argVars, posVars, uploadVars, batchVars>>

MoveNext ==
    \/ CreateTemp
    \/ CopyToTemp
    \/ VerifySize
    \/ RenameTemp
    \/ RemoveSource

SpecMove == MoveInit /\ [][MoveNext]_vars

\* C27: the source is gone only when its complete copy is at the final name
\* under no temporary name; a call that returned False left the source in
\* place; a call that returned True left the destination present and the
\* source gone.
C27_SourceRemovedLast ==
    /\ (mv_pc # "idle" /\ src_path = Absent) =>
           /\ final_path = File("upload", src_size)
           /\ temp_path = Absent
    /\ move_result = "False" => src_path = File("upload", src_size)
    /\ move_result = "True" => (final_path # Absent /\ src_path = Absent)

\* a move that replaced an older archive file and returned True
C27_Witness ==
    /\ move_result = "True"
    /\ src_size > 0
    /\ src_path = Absent
    /\ final_path = File("upload", src_size)

-----------------------------------------------------------------------------
(* sftp_funcs.py: calls of upload_to_sftp on one measurement directory     *)

MaxCalls == 2

\* a file name is the sequence of its dot-separated parts
DownloadedNames == { <<"a">>, <<"b">> }

\* line 122: gzip_path = local_path + '.gz'
gzip_path(local_path) == Append(local_path, "gz")

\* os.listdir returns the names in no particular order
Listings(dir) ==
    { l \in [1..Cardinality(dir) -> dir] :
          \A i, j \in 1..Cardinality(dir) : l[i] = l[j] => i = j }

\* how the body of the loop can end for one file: every statement succeeds,
\* or one of them raises
StepOutcomes == { "ok", "open_fails", "gzip_fails", "put_fails", "zip_fails",
                  "remove_local_fails", "remove_gzip_fails" }

\* the download directory holds what the download stage put there
UploadInit ==
    /\ LineIdle /\ FileIdle /\ ArgIdle /\ MoveIdle /\ BatchIdle
    /\ up_pc = "start" /\ up_calls = 0
    /\ download_dir \in SUBSET DownloadedNames
    /\ processed_dir = {}
    /\ files = <<>> /\ listed = {} /\ put_done = {} /\ step_failed = {}

\* lines 58-113: connection test, listing of the download directory, SFTP
\* session; each failure and an empty listing end the call
StartUpload ==
    /\ up_pc \in {"start", "done"}
    /\ up_calls < MaxCalls
    /\ up_calls' = up_calls + 1
    /\ put_done' = {} /\ step_failed' = {}
    /\ \E connected \in BOOLEAN :
          IF connected /\ download_dir # {}
          THEN /\ files' \in Listings(download_dir)
               /\ listed' = download_dir
               /\ up_pc' = "loop"
          ELSE /\ files' = <<>>
               /\ listed' = {}
               /\ up_pc' = "done"
    /\ UNCHANGED <<download_dir, processed_dir>>
    /\ UNCHANGED <<lineVars, fileVars, argVars, posVars, moveVars, batchVars>>

\* lines 116-145 for one listed name that is still a regular file
upload_one(file, outcome) ==
    /\ download_dir' =
         CASE outcome = "ok"
                -> download_dir \ {file, gzip_path(file)}
           [] outcome = "open_fails"
                -> download_dir
           [] outcome = "remove_gzip_fails"
                -> (download_dir \ {file}) \cup {gzip_path(file)}
           [] OTHER
                -> download_dir \cup {gzip_path(file)}
    /\ put_done' =
         IF outcome \in {"open_fails", "gzip_fails", "put_fails"}
         THEN put_done ELSE put_done \cup {file}
    /\ processed_dir' =
         IF outcome \in {"open_fails", "gzip_fails", "put_fails", "zip_fails"}
         THEN processed_dir ELSE processed_dir \cup {file}
    /\ step_failed' =
         IF outcome \in {"open_fails", "gzip_fails", "put_fails", "zip_fails"}
         THEN step_failed \cup {file} ELSE step_failed

\* one iteration of `for file in files`
UploadFile ==
    /\ up_pc = "loop"
    /\ files # <<>>
    /\ files' = Tail(files)
    /\ IF Head(files) \in download_dir
       THEN \E outcome \in StepOutcomes : upload_one(Head(files), outcome)
       ELSE UNCHANGED <<download_dir, processed_dir, put_done, step_failed>>
    /\ UNCHANGED <<up_pc, up_calls, listed>>
    /\ UNCHANGED <<lineVars, fileVars, argVars, posVars, moveVars, batchVars>>

\* lines 147-150: the sessions are closed
FinishUpload ==
    /\ up_pc = "loop"
    /\ files = <<>>
    /\ up_pc' = "done"
    /\ UNCHANGED <<up_calls, download_dir, processed_dir, files, listed,
                   put_done, step_failed>>
    /\ UNCHANGED <<lineVars, fileVars, argVars, posVars, moveVars, batchVars>>

UploadNext ==
    \/ StartUpload
    \/ UploadFile
    \/ FinishUpload

SpecUpload == UploadInit /\ [][UploadNext]_vars

\* C29: a file the listing of a call held is gone from the download directory
\* only when its upload returned and its zip copy is in the processed
\* directory, and a file whose gzip, upload or zip step failed is still there.
C29_DeletedOnlyAfterUploadAndZip ==
    \A f \in listed :
        /\ f \notin download_dir => (f \in put_done /\ f \in processed_dir)
        /\ f \in step_failed => f \in download_dir

-----------------------------------------------------------------------------
(* ftp_funcs.py: download_operation of download_all_new_files              *)

MaxDirs == 2
MaxTargets == 2

\* what identify_receiver_type can return; "none" stands for None
IdentifiedTypes == {"NetRS", "NetR8", "NetR9", "Mosaic", "none"}

\* a directory of data_dirs: whether the server lets the session enter it,
\* and how many target files its listing holds
DirInfos == [reachable : BOOLEAN, target_files : 0..MaxTargets]

DataDirLists == UNION { [1..n -> DirInfos] : n \in 0..MaxDirs }

RemoteFiles == (1..MaxDirs) \X (1..MaxTargets)

\* lines 752-755 and 233-318: for NetR8 and NetR9 the loop goes to "/" before
\* it enters a directory, and the Mosaic paths start at "/"; the NetRS paths
\* are relative to the working directory
path_from_root(rt) == rt \in {"NetR8", "NetR9", "Mosaic"}

\* how one iteration of the loop over target_files can go (lines 783-840)
FileOutcomes == { "no_date", "setup_raises", "retr_error", "not_226", "empty",
                  "process_failed", "processed" }

\* the iterations that get as far as NamedTemporaryFile (line 796)
creates_temp(outcome) == outcome \notin {"no_date", "setup_raises"}

\* variant that keeps the file of an empty download
removes_temp_unless_empty(outcome) ==
    outcome \in {"retr_error", "not_226", "process_failed", "processed"}

\* lines 805, 811, 818 and 836: os.remove(dnld_file.name)
removes_temp(outcome) ==
    outcome \in {"retr_error", "not_226", "empty", "process_failed",
                 "processed"}

BatchInit ==
    /\ LineIdle /\ FileIdle /\ ArgIdle /\ MoveIdle /\ UploadIdle
    /\ dl_pc = "start"
    /\ dl_receiver_type \in IdentifiedTypes
    /\ data_dirs \in DataDirLists
    /\ dir_index = 0 /\ file_index = 0 /\ ftp_cwd = "root"
    /\ listed_dirs = {}
    /\ attempts = [f \in RemoteFiles |-> 0]
    /\ failed_files = {}
    /\ last_outcome = "none" /\ dnld_file = "none" /\ batch_result = "none"

\* lines 701-733: no receiver type or no directory ends the run with False
StartBatch ==
    /\ dl_pc = "start"
    /\ IF dl_receiver_type = "none" \/ data_dirs = <<>>
       THEN /\ dl_pc' = "returned" /\ batch_result' = "False"
            /\ dir_index' = dir_index
       ELSE /\ dl_pc' = "dirs" /\ batch_result' = batch_result
            /\ dir_index' = 1
    /\ UNCHANGED <<dl_receiver_type, data_dirs, file_index, ftp_cwd,
                   listed_dirs, attempts, failed_files, last_outcome,
                   dnld_file>>
    /\ UNCHANGED <<lineVars, fileVars, argVars, posVars, moveVars, uploadVars>>

\* lines 736-781: enter the directory, list it, filter the target files; a
\* directory that cannot be entered, a failed listing and an empty list of
\* target files go on to the next directory without the cwd("/") of line 843
EnterDirectory ==
    /\ dl_pc = "dirs"
    /\ dir_index <= Len(data_dirs)
    /\ LET d == data_dirs[dir_index]
           entered == d.reachable
                      /\ (path_from_root(dl_receiver_type) \/ ftp_cwd = "root")
       IN  \E list_ok \in BOOLEAN :
              /\ ftp_cwd' = (IF entered THEN "dir"
                             ELSE IF dl_receiver_type \in {"NetR8", "NetR9"}
                                  THEN "root" ELSE ftp_cwd)
              /\ listed_dirs' = (IF entered /\ list_ok
                                 THEN listed_dirs \cup {dir_index}
                                 ELSE listed_dirs)
              /\ IF entered /\ list_ok /\ d.target_files > 0
                 THEN /\ dl_pc' = "files"
                      /\ file_index' = 1
                      /\ dir_index' = dir_index
                 ELSE /\ dl_pc' = "dirs"
                      /\ file_index' = file_index
                      /\ dir_index' = dir_index + 1
    /\ UNCHANGED <<dl_receiver_type, data_dirs, attempts, failed_files,
                   last_outcome, dnld_file, batch_result>>
    /\ UNCHANGED <<lineVars, fileVars, argVars, posVars, moveVars, uploadVars>>

\* lines 783-834: date, temporary file, RETR, checks, processing
AttemptFile ==
    /\ dl_pc = "files"
    /\ file_index <= data_dirs[dir_index].target_files
    /\ \E outcome \in FileOutcomes :
          /\ last_outcome' = outcome
          /\ dnld_file' = (IF creates_temp(outcome) THEN "exists" ELSE "none")
          /\ failed_files' = (IF outcome = "processed" THEN failed_files
                              ELSE failed_files \cup {<<dir_index, file_index>>})
    /\ attempts' = [attempts EXCEPT ![<<dir_index, file_index>>] = @ + 1]
    /\ dl_pc' = "file_end"
    /\ UNCHANGED <<dl_receiver_type, data_dirs, dir_index, file_index, ftp_cwd,
                   listed_dirs, batch_result>>
    /\ UNCHANGED <<lineVars, fileVars, argVars, posVars, moveVars, uploadVars>>

\* the end of the iteration: os.remove on the paths that have one, then
\* `continue` or the end of the loop body
FinishFile ==
    /\ dl_pc = "file_end"
    /\ dnld_file' = (IF removes_temp(last_outcome) THEN "removed" ELSE dnld_file)
    /\ file_index' = file_index + 1
    /\ dl_pc' = "files"
    /\ UNCHANGED <<dl_receiver_type, data_dirs, dir_index, ftp_cwd,
                   listed_dirs, attempts, failed_files, last_outcome,
                   batch_result>>
    /\ UNCHANGED <<lineVars, fileVars, argVars, posVars, moveVars, uploadVars>>

\* lines 842-847: after the last file, ftp.cwd("/"); its failure is caught by
\* the handler of the directory loop
LeaveDirectory ==
    /\ dl_pc = "files"
    /\ file_index > data_dirs[dir_index].target_files
    /\ \E cwd_ok \in BOOLEAN : ftp_cwd' = (IF cwd_ok THEN "root" ELSE ftp_cwd)
    /\ dir_index' = dir_index + 1
    /\ dl_pc' = "dirs"
    /\ UNCHANGED <<dl_receiver_type, data_dirs, file_index, listed_dirs,
                   attempts, failed_files, last_outcome, dnld_file,
                   batch_result>>
    /\ UNCHANGED <<lineVars, fileVars, argVars, posVars, moveVars, uploadVars>>

\* line 849: return True
FinishBatch ==
    /\ dl_pc = "dirs"
    /\ dir_index > Len(data_dirs)
    /\ dl_pc' = "returned"
    /\ batch_result' = "True"
    /\ UNCHANGED <<dl_receiver_type, data_dirs, dir_index, file_index, ftp_cwd,
                   listed_dirs, attempts, failed_files, last_outcome,
                   dnld_file>>
    /\ UNCHANGED <<lineVars, fileVars, argVars, posVars, moveVars, uploadVars>>

BatchNext ==
    \/ StartBatch
    \/ EnterDirectory
    \/ AttemptFile
    \/ FinishFile
    \/ LeaveDirectory
    \/ FinishBatch

SpecBatch == BatchInit /\ [][BatchNext]_vars

\* the target files the loops have passed: those of the listed directories
\* before the current one, and those before file_index in the current one
PassedFiles ==
    { f \in RemoteFiles :
        /\ f[1] \in listed_dirs
        /\ f[1] <= Len(data_dirs)
        /\ f[2] <= data_dirs[f[1]].target_files
        /\ \/ f[1] < dir_index
           \/ f[1] = dir_index /\ dl_pc \in {"files", "file_end"}
                               /\ f[2] < file_index }

\* C24: whatever happened to the files before, every target file of every
\* listed directory the loops have passed was attempted, no file was attempted
\* twice, and no temporary download file exists when the next file is started
\* or the run ends.
C24_FailureDoesNotEndBatch ==
    /\ \A f \in PassedFiles : attempts[f] = 1
    /\ \A f \in DOMAIN attempts : attempts[f] <= 1
    /\ dl_pc \in {"files", "dirs", "returned"} => dnld_file # "exists"

\* the first file of the first directory failed after its download started,
\* and the file after it and a file of the next directory were attempted
C24_Witness ==
    /\ dl_pc = "returned"
    /\ batch_result = "True"
    /\ <<1, 1>> \in failed_files
    /\ attempts[<<1, 2>>] = 1
    /\ attempts[<<2, 1>>] = 1
    /\ dnld_file = "removed"

====
